---- MODULE Spec2Model ----
(***************************************************************************)
(* Model of the packet sniffer of pkg/netdiag/sniffer.go: StartSniffer     *)
(* (capture session, interrupt listener, sinks, statistics) and the pure   *)
(* rendering functions printPacketInfo and formatPayload.                  *)
(***************************************************************************)
EXTENDS Integers, Sequences, FiniteSets, TLC

(***************************************************************************)
(* Bounds of the model.                                                    *)
(***************************************************************************)
MaxFrames == 2        \* frames the frame source delivers in one session
MaxCount == 2         \* largest packet-count budget (config.Count) tried
MaxSinkErrs == 1      \* write failures of the file sinks in one session
MaxPayload == 10      \* longest application payload rendered
MaxWide == 4          \* longest payload drawn from the wide byte sample
MaxRecorded == 10     \* AddPacket calls made on one PacketStats
MaxMixed == 3         \* AddPacket calls among which every kind of frame is drawn
MaxKeys == 3          \* keys of the counter map given to printTopItems

VARIABLES
  cfg,          \* SnifferConfig handed to StartSniffer
  pc,           \* position of StartSniffer (the loop task)
  err,          \* error StartSniffer returns ("nil" for success)
  handle,       \* pcap handle:   "none" | "open" | "closed"
  linkType,     \* handle.LinkType() of the opened handle, 0 before
  outFile,      \* text file:     "none" | "open" | "closed"
  pcapFile,     \* pcap file:     "none" | "open" | "closed"
  defers,       \* stack of deferred Close calls (last pushed runs first)
  acquireLog,   \* resources in the order they were acquired
  closeLog,     \* resources in the order Close was called on them
  subscribed,   \* signal.Notify(signalChan, ...) is in force
  signalChan,   \* number of signals buffered in signalChan (capacity 1)
  stopChan,     \* "nil" | "open" | "closed"
  stopCloses,   \* number of close(stopChan) calls executed
  lpc,          \* position of the interrupt listener goroutine
  reader,       \* packetSource.Packets() goroutine: "none"|"running"|"ended"
  packetChan,   \* frames buffered in packetChan
  produced,     \* frames the frame source has delivered so far
  cur,          \* frame the loop is processing
  count,        \* local variable count of StartSniffer
  console,      \* lines printed by fmt.Println, in order
  textFile,     \* lines written to the text file, in order
  pcapOut,      \* contents of the pcap file: header and records, in order
  stats,        \* *PacketStats (stats.on = FALSE models nil)
  reports,      \* PacketCount printed by each PrintStats call, in order
  sinkErrs,     \* number of sink write failures logged
  killed,       \* process terminated by the default signal disposition
  cause,        \* why the loop was left: "none"|"closed"|"budget"|"stop"
  processed,    \* frames the loop has taken from packetChan, in order
  payload,      \* rendering: the application payload given as input
  frame,        \* rendering: the frame given to printPacketInfo
  plen,         \* rendering: the payloadLen given to printPacketInfo
  rpc,          \* rendering: "input" | "formatted" | "printed"
  preview,      \* rendering: the string formatPayload returned
  summary,      \* rendering: the line printPacketInfo printed
  items,        \* ranking: the counter map given to printTopItems
  topn,         \* ranking: the n given to printTopItems
  sorted,       \* ranking: the slice `sorted' of printTopItems
  ranked,       \* ranking: the entries printTopItems printed, in order
  first,        \* ranking: what the previous call printed for the same map
  calls,        \* ranking: number of calls made on the map
  kpc           \* ranking: "range" | "printed"

sessionVars == <<cfg, pc, err, handle, linkType, outFile, pcapFile, defers, acquireLog,
                 closeLog, subscribed, signalChan, stopChan, stopCloses, lpc,
                 reader, packetChan, produced, cur, count, console, textFile,
                 pcapOut, stats, reports, sinkErrs, killed, cause,
                 processed>>
renderVars == <<payload, frame, plen, rpc, preview, summary>>
rankVars == <<items, topn, sorted, ranked, first, calls, kpc>>
vars == <<cfg, pc, err, handle, linkType, outFile, pcapFile, defers, acquireLog,
          closeLog, subscribed, signalChan, stopChan, stopCloses, lpc,
          reader, packetChan, produced, cur, count, console, textFile,
          pcapOut, stats, reports, sinkErrs, killed, cause, processed,
          payload, frame, plen, rpc, preview, summary,
          items, topn, sorted, ranked, first, calls, kpc>>

(***************************************************************************)
(* Frames.  A frame is what gopacket hands to the loop: the capture        *)
(* metadata, the raw bytes and the layers that were decoded.  A field of a *)
(* layer is read only when that layer is in `layers'.                      *)
(***************************************************************************)
NoTCP == [SrcPort |-> 0, DstPort |-> 0, SYN |-> FALSE, ACK |-> FALSE,
          FIN |-> FALSE, RST |-> FALSE, PSH |-> FALSE, URG |-> FALSE,
          Seq |-> 0, Ack |-> 0, Window |-> 0]
NoUDP == [SrcPort |-> 0, DstPort |-> 0, Length |-> 0]
NoDNS == [QR |-> FALSE, Questions |-> <<>>, Answers |-> <<>>]

\* A frame in which no layer was recognised, of wire length len.
BareFrame(len) ==
  [ts |-> 1, Length |-> len, data |-> [i \in 1..len |-> 0], layers |-> <<>>,
   SrcMAC |-> 0, DstMAC |-> 0, SrcIP |-> 0, DstIP |-> 0,
   SrcIP6 |-> 0, DstIP6 |-> 0, tcp |-> NoTCP, udp |-> NoUDP,
   icmpType |-> 0, icmpCode |-> 0, icmp6Type |-> 0, dns |-> NoDNS,
   hasApp |-> FALSE, app |-> <<>>]

\* A frame gopacket could not decode: the only layer is the decode failure.
GarbageFrame(len) == [BareFrame(len) EXCEPT !.layers = <<"DecodeFailure">>]

\* packet.Layer(t) != nil
HasLayer(f, t) == \E i \in 1..Len(f.layers) : f.layers[i] = t

(***************************************************************************)
(* formatPayload.  Bytes are numbers 0..255; the result is the sequence of *)
(* the character codes of the returned string.                             *)
(***************************************************************************)
\* the printable range tested with < 126 for <= 126
AsciiOfExclusive(b) ==
  IF b >= 32 /\ b < 126 THEN b
  ELSE IF b = 13 \/ b = 10 \/ b = 9 THEN 32
  ELSE 46

\* the byte appended to asciiString for payload byte b
AsciiOf(b) ==
  IF b >= 32 /\ b <= 126 THEN b
  ELSE IF b = 13 \/ b = 10 \/ b = 9 THEN 32
  ELSE 46

\* the loop of formatPayload: asciiString
AsciiString(p) == [i \in 1..Len(p) |-> AsciiOf(p[i])]

\* the loop of formatPayload: the counter unprintable
Unprintable(p) ==
  Cardinality({i \in 1..Len(p) :
                 ~(p[i] >= 32 /\ p[i] <= 126) /\ ~(p[i] = 13 \/ p[i] = 10 \/ p[i] = 9)})

\* character code of the lowercase hex digit d (0..15): "0123456789abcdef"
HexDigit(d) == IF d < 10 THEN 48 + d ELSE 97 + (d - 10)

\* hex.EncodeToString: two lowercase digits per byte, high nibble first
HexEncode(p) ==
  [i \in 1..(2 * Len(p)) |->
     IF i % 2 = 1 THEN HexDigit(p[(i + 1) \div 2] \div 16)
     ELSE HexDigit(p[i \div 2] % 16)]

\* strings.TrimSpace on a string of ASCII codes: asciiString holds only
\* codes 32..126, of which the space is the only white space
RECURSIVE TrimLeft(_)
TrimLeft(s) == IF s # <<>> /\ Head(s) = 32 THEN TrimLeft(Tail(s)) ELSE s
RECURSIVE TrimRight(_)
TrimRight(s) ==
  IF s # <<>> /\ s[Len(s)] = 32 THEN TrimRight(SubSeq(s, 1, Len(s) - 1)) ELSE s
TrimSpace(s) == TrimRight(TrimLeft(s))

\* float64(unprintable)/float64(len(payload)) > 0.3.  The constant 0.3 is the
\* double 3/10 - 1/(5*2^54) and the quotient is rounded to nearest, so with
\* d = 10*unprintable - 3*len(payload) the comparison is true exactly when
\* d >= 1 and 3*len(payload) <= d*2^54; a payload is far shorter than 2^54/3
\* bytes, which leaves d >= 1.
TooManyUnprintableGE(u, n) == 10 * u >= 3 * n

TooManyUnprintable(u, n) == 10 * u > 3 * n

formatPayload(p) ==
  IF TooManyUnprintable(Unprintable(p), Len(p))
  THEN HexEncode(p)
  ELSE TrimSpace(AsciiString(p))

(***************************************************************************)
(* printPacketInfo.  The summary line `output' is the sequence of the      *)
(* pieces appended to it; a piece is the format used (tag), its string     *)
(* arguments (s) and its numeric arguments (n).                            *)
(***************************************************************************)
Piece(tag, s, n) == [tag |-> tag, s |-> s, n |-> n]

\* the flag letters of a TCP layer, in the order the code appends them
\* the flag string with the FIN letter appended before the ACK letter
TCPFlagsFinFirst(t) ==
  (IF t.SYN THEN <<"S">> ELSE <<>>) \o (IF t.FIN THEN <<"F">> ELSE <<>>) \o
  (IF t.ACK THEN <<"A">> ELSE <<>>) \o (IF t.RST THEN <<"R">> ELSE <<>>) \o
  (IF t.PSH THEN <<"P">> ELSE <<>>) \o (IF t.URG THEN <<"U">> ELSE <<>>)

\* the string flags of printPacketInfo, one letter per appended character
TCPFlags(t) ==
  (IF t.SYN THEN <<"S">> ELSE <<>>) \o (IF t.ACK THEN <<"A">> ELSE <<>>) \o
  (IF t.FIN THEN <<"F">> ELSE <<>>) \o (IF t.RST THEN <<"R">> ELSE <<>>) \o
  (IF t.PSH THEN <<"P">> ELSE <<>>) \o (IF t.URG THEN <<"U">> ELSE <<>>)

EthPiece(f) ==
  IF HasLayer(f, "Ethernet")
  THEN <<Piece("eth", <<>>, <<f.ts, f.SrcMAC, f.DstMAC>>)>> ELSE <<>>
IPv4Piece(f) ==
  IF HasLayer(f, "IPv4") THEN <<Piece("IPv4", <<>>, <<f.SrcIP, f.DstIP>>)>> ELSE <<>>
IPv6Piece(f) ==
  IF HasLayer(f, "IPv6") THEN <<Piece("IPv6", <<>>, <<f.SrcIP6, f.DstIP6>>)>> ELSE <<>>
TCPPiece(f) ==
  IF HasLayer(f, "TCP")
  THEN <<Piece("TCP", TCPFlags(f.tcp),
               <<f.tcp.SrcPort, f.tcp.DstPort, f.tcp.Seq, f.tcp.Ack, f.tcp.Window>>)>>
  ELSE <<>>
UDPPiece(f) ==
  IF HasLayer(f, "UDP")
  THEN <<Piece("UDP", <<>>, <<f.udp.SrcPort, f.udp.DstPort, f.udp.Length>>)>>
  ELSE <<>>
ICMPPiece(f) ==
  IF HasLayer(f, "ICMPv4")
  THEN <<Piece("ICMP", <<>>, <<f.icmpType, f.icmpCode>>)>> ELSE <<>>
ICMPv6Piece(f) ==
  IF HasLayer(f, "ICMPv6") THEN <<Piece("ICMPv6", <<>>, <<f.icmp6Type>>)>> ELSE <<>>
\* the names of the questions printed for a response as well
DNSPieceQuestions(f) ==
  IF HasLayer(f, "DNS")
  THEN IF f.dns.QR THEN <<Piece(" DNS Response", f.dns.Questions, <<>>)>>
       ELSE <<Piece(" DNS Query", f.dns.Questions, <<>>)>>
  ELSE <<>>

\* " DNS Response" and the answer names, or " DNS Query" and the question
\* names, each name after a space
DNSPiece(f) ==
  IF HasLayer(f, "DNS")
  THEN IF f.dns.QR THEN <<Piece(" DNS Response", f.dns.Answers, <<>>)>>
       ELSE <<Piece(" DNS Query", f.dns.Questions, <<>>)>>
  ELSE <<>>

\* ", length %d bytes", appended only when Metadata().Length > 0
LengthPiece(f) ==
  IF f.Length > 0 THEN <<Piece("length", <<>>, <<f.Length>>)>> ELSE <<>>

\* payload[:payloadLen] when the payload is longer than payloadLen
Truncate(p, payloadLen) ==
  IF Len(p) > payloadLen THEN SubSeq(p, 1, payloadLen) ELSE p

\* "\n  Payload: %s" of the first payloadLen bytes of the application payload
PayloadPiece(f, payloadLen) ==
  IF payloadLen > 0 /\ f.hasApp /\ Len(f.app) > 0
  THEN <<Piece("Payload", <<>>, formatPayload(Truncate(f.app, payloadLen)))>>
  ELSE <<>>

\* the string `output' that printPacketInfo prints
Summary(f, payloadLen) ==
  EthPiece(f) \o IPv4Piece(f) \o IPv6Piece(f) \o TCPPiece(f) \o UDPPiece(f) \o
  ICMPPiece(f) \o ICMPv6Piece(f) \o DNSPiece(f) \o LengthPiece(f) \o
  PayloadPiece(f, payloadLen)

\* packet.Dump(), printed after the summary in verbose mode
Dump(f) == <<Piece("dump", <<>>, f.data)>>

\* what printPacketInfo prints to the console for one frame
ConsoleLines(f, verbose, payloadLen) ==
  <<Summary(f, payloadLen)>> \o (IF verbose THEN <<Dump(f)>> ELSE <<>>)

(***************************************************************************)
(* Sample frames of the capture session.                                   *)
(***************************************************************************)
\* Ethernet/IPv4/TCP SYN without payload, 60 bytes on the wire of which the
\* first 3 were captured
SynFrame ==
  [BareFrame(3) EXCEPT !.Length = 60, !.layers = <<"Ethernet", "IPv4", "TCP">>,
     !.SrcMAC = 1, !.DstMAC = 2, !.SrcIP = 1, !.DstIP = 2,
     !.tcp = [NoTCP EXCEPT !.SrcPort = 40000, !.DstPort = 80, !.SYN = TRUE,
                           !.Seq = 7, !.Window = 512]]

\* Ethernet/IPv4/UDP carrying a 4-byte payload "A\n\x00B"
UdpFrame ==
  [BareFrame(4) EXCEPT !.ts = 2, !.layers = <<"Ethernet", "IPv4", "UDP", "Payload">>,
     !.SrcMAC = 2, !.DstMAC = 1, !.SrcIP = 2, !.DstIP = 1,
     !.udp = [SrcPort |-> 5000, DstPort |-> 5001, Length |-> 12],
     !.hasApp = TRUE, !.app = <<65, 10, 0, 66>>]

\* Ethernet/IPv4/UDP to port 53 carrying a DNS query with one question; the
\* DNS layer is the application layer and has no payload of its own
DnsQueryFrame ==
  [BareFrame(4) EXCEPT !.ts = 3, !.Length = 71,
     !.layers = <<"Ethernet", "IPv4", "UDP", "DNS">>,
     !.SrcMAC = 1, !.DstMAC = 2, !.SrcIP = 1, !.DstIP = 3,
     !.udp = [SrcPort |-> 5353, DstPort |-> 53, Length |-> 37],
     !.dns = [QR |-> FALSE, Questions |-> <<"example.com">>, Answers |-> <<>>],
     !.hasApp = TRUE]

\* a DNS query with two questions
DnsTwoQuestionsFrame ==
  [DnsQueryFrame EXCEPT !.dns.Questions = <<"example.org", "example.com">>]

\* the response: the question repeated and two answers (a CNAME chain)
DnsResponseFrame ==
  [DnsQueryFrame EXCEPT !.ts = 4, !.SrcIP = 3, !.DstIP = 1,
     !.udp = [SrcPort |-> 53, DstPort |-> 5353, Length |-> 80],
     !.dns = [QR |-> TRUE, Questions |-> <<"example.com">>,
              Answers |-> <<"example.com", "cdn.example.net">>]]

\* IPv6 carried in IPv4 (IP protocol 41, a 6in4 tunnel) with TCP inside:
\* gopacket decodes the outer IPv4 layer and the inner IPv6 layer
Tunnel6in4Frame ==
  [SynFrame EXCEPT !.ts = 5, !.Length = 94,
     !.layers = <<"Ethernet", "IPv4", "IPv6", "TCP">>,
     !.SrcIP6 = 61, !.DstIP6 = 62]

\* a VXLAN frame (UDP port 4789): the outer UDP layer and, after the inner
\* Ethernet and IPv4 layers, the TCP layer of the tunnelled frame
VxlanFrame ==
  [SynFrame EXCEPT !.ts = 6, !.Length = 110,
     !.layers = <<"Ethernet", "IPv4", "UDP", "VXLAN", "Ethernet", "IPv4", "TCP">>,
     !.udp = [SrcPort |-> 49152, DstPort |-> 4789, Length |-> 76]]

\* a TCP SYN captured on a loopback interface (link type NULL): the link
\* layer decoded is Loopback, there is no Ethernet layer
LoopbackSynFrame ==
  [SynFrame EXCEPT !.ts = 7, !.Length = 44, !.layers = <<"Loopback", "IPv4", "TCP">>]

\* the i-th frame the frame source delivers in the session: TCP SYN and UDP
\* frames in turn
StreamFrame(i) == IF i % 2 = 1 THEN SynFrame ELSE UdpFrame

(***************************************************************************)
(* PacketStats.                                                            *)
(***************************************************************************)
EmptyMap == [k \in {} |-> 0]

\* m[k]++ on a Go map
Incr(m, k) == IF k \in DOMAIN m THEN [m EXCEPT ![k] = @ + 1] ELSE m @@ (k :> 1)

NilStats ==
  [on |-> FALSE, PacketCount |-> 0, TotalBytes |-> 0, ProtocolMap |-> EmptyMap,
   SourceIPs |-> EmptyMap, DestIPs |-> EmptyMap,
   SourcePorts |-> EmptyMap, DestPorts |-> EmptyMap]

NewPacketStats == [NilStats EXCEPT !.on = TRUE]

\* a layer type counted once for a frame however often it was decoded
RECURSIVE CountLayersOnce(_, _)
CountLayersOnce(m, ls) ==
  IF ls = <<>> THEN m
  ELSE IF \E i \in 2..Len(ls) : ls[i] = Head(ls) THEN CountLayersOnce(m, Tail(ls))
  ELSE CountLayersOnce(Incr(m, Head(ls)), Tail(ls))

\* for _, layer := range packet.Layers() { ps.ProtocolMap[layer type]++ }
RECURSIVE CountLayers(_, _)
CountLayers(m, ls) ==
  IF ls = <<>> THEN m ELSE CountLayers(Incr(m, Head(ls)), Tail(ls))

\* the address counters with the IPv6 layer tested by an if of its own
AddIPsBoth(ps, f) ==
  LET p4 == IF HasLayer(f, "IPv4")
            THEN [ps EXCEPT !.SourceIPs = Incr(@, f.SrcIP), !.DestIPs = Incr(@, f.DstIP)]
            ELSE ps
  IN IF HasLayer(f, "IPv6")
     THEN [p4 EXCEPT !.SourceIPs = Incr(@, f.SrcIP6), !.DestIPs = Incr(@, f.DstIP6)]
     ELSE p4

\* the four address counters after one AddPacket
AddIPs(ps, f) ==
  IF HasLayer(f, "IPv4")
  THEN [ps EXCEPT !.SourceIPs = Incr(@, f.SrcIP), !.DestIPs = Incr(@, f.DstIP)]
  ELSE IF HasLayer(f, "IPv6")
  THEN [ps EXCEPT !.SourceIPs = Incr(@, f.SrcIP6), !.DestIPs = Incr(@, f.DstIP6)]
  ELSE ps

AddPorts(ps, f) ==
  IF HasLayer(f, "TCP")
  THEN [ps EXCEPT !.SourcePorts = Incr(@, f.tcp.SrcPort),
                  !.DestPorts = Incr(@, f.tcp.DstPort)]
  ELSE IF HasLayer(f, "UDP")
  THEN [ps EXCEPT !.SourcePorts = Incr(@, f.udp.SrcPort),
                  !.DestPorts = Incr(@, f.udp.DstPort)]
  ELSE ps

AddPacket(ps, f) ==
  AddPorts(AddIPs([ps EXCEPT !.PacketCount = @ + 1,
                             !.TotalBytes = @ + f.Length,
                             !.ProtocolMap = CountLayers(@, f.layers)], f), f)

(***************************************************************************)
(* printTopItems and printTopItemsUint16.  `sorted' is a sequence of       *)
(* entries [Key, Value]; sorted[j] of the code is s[j + 1] here.           *)
(***************************************************************************)
kv(k, v) == [Key |-> k, Value |-> v]

\* the comparison turned round: the larger value sinks
ShouldSwapAscending(x, y) == x.Value > y.Value

\* if sorted[j].Value < sorted[j+1].Value
ShouldSwap(x, y) == x.Value < y.Value

\* sorted[j], sorted[j+1] = sorted[j+1], sorted[j]
Swap(s, j) == [s EXCEPT ![j + 1] = s[j + 2], ![j + 2] = s[j + 1]]

\* for j := 0; j < len(sorted)-i-1; j++ { ... }, from j on
RECURSIVE InnerLoop(_, _, _)
InnerLoop(s, i, j) ==
  IF j < Len(s) - i - 1
  THEN InnerLoop(IF ShouldSwap(s[j + 1], s[j + 2]) THEN Swap(s, j) ELSE s, i, j + 1)
  ELSE s

\* for i := 0; i < len(sorted)-1; i++ { ... }, from i on
RECURSIVE OuterLoop(_, _)
OuterLoop(s, i) ==
  IF i < Len(s) - 1 THEN OuterLoop(InnerLoop(s, i, 0), i + 1) ELSE s

BubbleSort(s) == OuterLoop(s, 0)

\* the entries printed: the first count of the sorted slice, count being n
\* or len(sorted) if that is less
TopEntries(s, n) == SubSeq(s, 1, IF Len(s) < n THEN Len(s) ELSE n)

\* printTopItems(items, n), given the slice the range over items built
printTopItems(s, n) == TopEntries(BubbleSort(s), n)

\* printTopItemsUint16(items, n): the same steps on uint16 keys
printTopItemsUint16(s, n) == TopEntries(BubbleSort(s), n)

\* the n PrintStats passes
TopCount == 5

(***************************************************************************)
(* The capture session: StartSniffer.                                      *)
(***************************************************************************)
DefaultSnaplen == 1600
DefaultPayloadLen == 64

\* The options that only change what is written, as tried in the session:
\* <<Verbose, PayloadLen, Snaplen>>.  Preview off with the default snapshot
\* length, and verbose with a preview that cuts the payload of UdpFrame.
SessionOptions == {<<FALSE, 0, 0>>, <<TRUE, 3, 96>>}

\* Output and SavePcap are TRUE when the path is not empty.  config.Filter is
\* read once, by SetFilter, and is drawn there.
Configs ==
  {c \in [Output : BOOLEAN, SavePcap : BOOLEAN, Statistics : BOOLEAN,
          Verbose : BOOLEAN, Count : 0..MaxCount, PayloadLen : {0, 3},
          Snaplen : {0, 96}] :
     <<c.Verbose, c.PayloadLen, c.Snaplen>> \in SessionOptions}

NoFrame == GarbageFrame(0)

SessionInit ==
  /\ cfg \in Configs
  /\ pc = "OpenLive"
  /\ err = "unset"
  /\ handle = "none" /\ outFile = "none" /\ pcapFile = "none"
  /\ linkType = 0
  /\ defers = <<>> /\ acquireLog = <<>> /\ closeLog = <<>>
  /\ subscribed = FALSE /\ signalChan = 0
  /\ stopChan = "nil" /\ stopCloses = 0
  /\ lpc = "none"
  /\ reader = "none" /\ packetChan = <<>> /\ produced = 0
  /\ cur = NoFrame /\ count = 0
  /\ console = <<>> /\ textFile = <<>> /\ pcapOut = <<>>
  /\ stats = NilStats /\ reports = <<>> /\ sinkErrs = 0
  /\ killed = FALSE /\ cause = "none" /\ processed = <<>>

RenderIdle ==
  /\ payload = <<>> /\ frame = NoFrame /\ plen = 0
  /\ rpc = "input" /\ preview = <<>> /\ summary = <<>>

\* no ranking under way: an empty map, nothing printed
RankIdle ==
  /\ items = EmptyMap /\ topn = 0 /\ sorted = <<>> /\ ranked = <<>>
  /\ first = <<>> /\ calls = 1 /\ kpc = "range"

Init == SessionInit /\ RenderIdle /\ RankIdle

\* a return that skips the deferred calls, as without the defer statements
FailNoCleanup(e) == err' = e /\ pc' = "Done"

\* return fmt.Errorf(...): the deferred calls run next
Fail(e) == err' = e /\ pc' = "Return"

\* link types of the handle tried: Ethernet (1) and Linux cooked capture
\* (113).  The link type is written by WriteFileHeader only, so the second is
\* tried in the sessions that save a pcap file.
LinkTypes(savePcap) == IF savePcap THEN {1, 113} ELSE {1}

\* lines 199-208: default snapshot length, pcap.OpenLive, defer handle.Close()
OpenLive ==
  /\ pc = "OpenLive" /\ ~killed
  /\ cfg' = [cfg EXCEPT !.Snaplen = IF @ <= 0 THEN DefaultSnaplen ELSE @]
  /\ \E ok \in BOOLEAN :
       IF ok
       THEN /\ handle' = "open"
            /\ \E lt \in LinkTypes(cfg.SavePcap) : linkType' = lt
            /\ acquireLog' = Append(acquireLog, "handle")
            /\ defers' = Append(defers, "handle")
            /\ pc' = "SetFilter"
            /\ err' = err
       ELSE /\ Fail("open")
            /\ UNCHANGED <<handle, linkType, acquireLog, defers>>
  /\ UNCHANGED <<outFile, pcapFile, closeLog, subscribed, signalChan, stopChan,
                 stopCloses, lpc, reader, packetChan, produced, cur, count,
                 console, textFile, pcapOut, stats, reports, sinkErrs,
                 killed, cause, processed, renderVars, rankVars>>

\* the filter error kept for later while the setup goes on
SetFilterGoesOn ==
  /\ pc = "SetFilter" /\ ~killed
  /\ \E filterSet \in BOOLEAN :
       IF filterSet
       THEN \E ok \in BOOLEAN :
              /\ pc' = "CreateOut"
              /\ err' = IF ok THEN err ELSE "filter"
       ELSE pc' = "CreateOut" /\ err' = err
  /\ UNCHANGED <<cfg, handle, linkType, outFile, pcapFile, defers, acquireLog, closeLog,
                 subscribed, signalChan, stopChan, stopCloses, lpc, reader,
                 packetChan, produced, cur, count, console, textFile, pcapOut,
                 stats, reports, sinkErrs, killed, cause, processed, renderVars, rankVars>>

\* lines 211-215: handle.SetBPFFilter when config.Filter is not empty
SetFilter ==
  /\ pc = "SetFilter" /\ ~killed
  /\ \E filterSet \in BOOLEAN :
       IF filterSet
       THEN \E ok \in BOOLEAN :
              IF ok THEN pc' = "CreateOut" /\ err' = err ELSE Fail("filter")
       ELSE pc' = "CreateOut" /\ err' = err
  /\ UNCHANGED <<cfg, handle, linkType, outFile, pcapFile, defers, acquireLog, closeLog,
                 subscribed, signalChan, stopChan, stopCloses, lpc, reader,
                 packetChan, produced, cur, count, console, textFile, pcapOut,
                 stats, reports, sinkErrs, killed, cause, processed, renderVars, rankVars>>

\* lines 218-225: os.Create(config.Output), defer outFile.Close()
CreateOut ==
  /\ pc = "CreateOut" /\ ~killed
  /\ IF cfg.Output
     THEN \E ok \in BOOLEAN :
            IF ok
            THEN /\ outFile' = "open"
                 /\ acquireLog' = Append(acquireLog, "outFile")
                 /\ defers' = Append(defers, "outFile")
                 /\ pc' = "CreatePcap"
                 /\ err' = err
            ELSE /\ Fail("createOut")
                 /\ UNCHANGED <<outFile, acquireLog, defers>>
     ELSE /\ pc' = "CreatePcap"
          /\ UNCHANGED <<err, outFile, acquireLog, defers>>
  /\ UNCHANGED <<cfg, handle, linkType, pcapFile, closeLog, subscribed, signalChan,
                 stopChan, stopCloses, lpc, reader, packetChan, produced, cur,
                 count, console, textFile, pcapOut, stats, reports, sinkErrs,
                 killed, cause, processed, renderVars, rankVars>>

\* the failure of os.Create(config.SavePcap) noted while the setup goes on
\* without the pcap file
CreatePcapGoesOn ==
  /\ pc = "CreatePcap" /\ ~killed
  /\ IF cfg.SavePcap
     THEN \E ok \in BOOLEAN :
            IF ok
            THEN /\ pcapFile' = "open"
                 /\ acquireLog' = Append(acquireLog, "pcapFile")
                 /\ defers' = Append(defers, "pcapFile")
                 /\ pc' = "WriteHeader"
                 /\ err' = err
            ELSE /\ err' = "createPcap" /\ pc' = "Notify"
                 /\ UNCHANGED <<pcapFile, acquireLog, defers>>
     ELSE /\ pc' = "Notify"
          /\ UNCHANGED <<err, pcapFile, acquireLog, defers>>
  /\ UNCHANGED <<cfg, handle, linkType, outFile, closeLog, subscribed, signalChan,
                 stopChan, stopCloses, lpc, reader, packetChan, produced, cur,
                 count, console, textFile, pcapOut, stats, reports, sinkErrs,
                 killed, cause, processed, renderVars, rankVars>>

\* lines 228-234: os.Create(config.SavePcap), defer pcapFile.Close()
CreatePcap ==
  /\ pc = "CreatePcap" /\ ~killed
  /\ IF cfg.SavePcap
     THEN \E ok \in BOOLEAN :
            IF ok
            THEN /\ pcapFile' = "open"
                 /\ acquireLog' = Append(acquireLog, "pcapFile")
                 /\ defers' = Append(defers, "pcapFile")
                 /\ pc' = "WriteHeader"
                 /\ err' = err
            ELSE /\ Fail("createPcap")
                 /\ UNCHANGED <<pcapFile, acquireLog, defers>>
     ELSE /\ pc' = "Notify"
          /\ UNCHANGED <<err, pcapFile, acquireLog, defers>>
  /\ UNCHANGED <<cfg, handle, linkType, outFile, closeLog, subscribed, signalChan,
                 stopChan, stopCloses, lpc, reader, packetChan, produced, cur,
                 count, console, textFile, pcapOut, stats, reports, sinkErrs,
                 killed, cause, processed, renderVars, rankVars>>

\* a header that says Ethernet whatever the handle is
PcapHeaderEthernet(snaplen, linktype) ==
  [kind |-> "header", snaplen |-> snaplen, linktype |-> 1, ci |-> <<>>, data |-> <<>>]

\* the global header of the pcap file
PcapHeader(snaplen, linktype) ==
  [kind |-> "header", snaplen |-> snaplen, linktype |-> linktype, ci |-> <<>>,
   data |-> <<>>]

\* lines 236-239: pcapgo.NewWriter, WriteFileHeader(snaplen, link type)
WriteHeader ==
  /\ pc = "WriteHeader" /\ ~killed
  /\ \E ok \in BOOLEAN :
       IF ok
       THEN /\ pcapOut' = Append(pcapOut, PcapHeader(cfg.Snaplen, linkType))
            /\ pc' = "Notify"
            /\ err' = err
       ELSE /\ Fail("header")
            /\ pcapOut' = pcapOut
  /\ UNCHANGED <<cfg, handle, linkType, outFile, pcapFile, defers, acquireLog, closeLog,
                 subscribed, signalChan, stopChan, stopCloses, lpc, reader,
                 packetChan, produced, cur, count, console, textFile, stats,
                 reports, sinkErrs, killed, cause, processed, renderVars, rankVars>>

\* lines 242-253: NewPacketStats when enabled, signal.Notify on a channel of
\* capacity 1, make(stopChan)
Notify ==
  /\ pc = "Notify" /\ ~killed
  /\ stats' = IF cfg.Statistics THEN NewPacketStats ELSE stats
  /\ subscribed' = TRUE
  /\ stopChan' = "open"
  /\ pc' = "Packets"
  /\ UNCHANGED <<cfg, err, handle, linkType, outFile, pcapFile, defers, acquireLog,
                 closeLog, signalChan, stopCloses, lpc, reader, packetChan,
                 produced, cur, count, console, textFile, pcapOut, reports,
                 sinkErrs, killed, cause, processed, renderVars, rankVars>>

\* lines 256-258: packetSource.Packets() starts the goroutine that reads the
\* handle and feeds packetChan
Packets ==
  /\ pc = "Packets" /\ ~killed
  /\ reader' = "running"
  /\ pc' = "GoListener"
  /\ UNCHANGED <<cfg, err, handle, linkType, outFile, pcapFile, defers, acquireLog,
                 closeLog, subscribed, signalChan, stopChan, stopCloses, lpc,
                 packetChan, produced, cur, count, console, textFile, pcapOut,
                 stats, reports, sinkErrs, killed, cause, processed, renderVars, rankVars>>

\* lines 261-268: go func() {...}(); count := 0
GoListener ==
  /\ pc = "GoListener" /\ ~killed
  /\ lpc' = "recv"
  /\ count' = 0
  /\ pc' = "Select"
  /\ UNCHANGED <<cfg, err, handle, linkType, outFile, pcapFile, defers, acquireLog,
                 closeLog, subscribed, signalChan, stopChan, stopCloses, reader,
                 packetChan, produced, cur, console, textFile, pcapOut, stats,
                 reports, sinkErrs, killed, cause, processed, renderVars, rankVars>>

\* line 273, ok = true: a frame is taken from packetChan
RecvFrame ==
  /\ pc = "Select" /\ ~killed
  /\ packetChan # <<>>
  /\ cur' = Head(packetChan)
  /\ processed' = Append(processed, Head(packetChan))
  /\ packetChan' = Tail(packetChan)
  /\ pc' = "PrintPacket"
  /\ UNCHANGED <<cfg, err, handle, linkType, outFile, pcapFile, defers, acquireLog,
                 closeLog, subscribed, signalChan, stopChan, stopCloses, lpc,
                 reader, produced, count, console, textFile, pcapOut, stats,
                 reports, sinkErrs, killed, cause, renderVars, rankVars>>

\* lines 273-277, ok = false: packetChan is closed and drained
RecvClosed ==
  /\ pc = "Select" /\ ~killed
  /\ packetChan = <<>> /\ reader = "ended"
  /\ pc' = "Report"
  /\ cause' = "closed"
  /\ UNCHANGED <<cfg, err, handle, linkType, outFile, pcapFile, defers, acquireLog,
                 closeLog, subscribed, signalChan, stopChan, stopCloses, lpc,
                 reader, packetChan, produced, cur, count, console, textFile,
                 pcapOut, stats, reports, sinkErrs, killed, processed, renderVars, rankVars>>

\* the stop case returning at once instead of leaving the loop
RecvStopReturns ==
  /\ pc = "Select" /\ ~killed
  /\ stopChan = "closed"
  /\ pc' = "Return" /\ err' = "nil"
  /\ cause' = "stop"
  /\ UNCHANGED <<cfg, handle, linkType, outFile, pcapFile, defers, acquireLog,
                 closeLog, subscribed, signalChan, stopChan, stopCloses, lpc,
                 reader, packetChan, produced, cur, count, console, textFile,
                 pcapOut, stats, reports, sinkErrs, killed, processed,
                 renderVars, rankVars>>

\* lines 299-302: the receive from the closed stopChan is chosen
RecvStop ==
  /\ pc = "Select" /\ ~killed
  /\ stopChan = "closed"
  /\ pc' = "Report"
  /\ cause' = "stop"
  /\ UNCHANGED <<cfg, err, handle, linkType, outFile, pcapFile, defers, acquireLog,
                 closeLog, subscribed, signalChan, stopChan, stopCloses, lpc,
                 reader, packetChan, produced, cur, count, console, textFile,
                 pcapOut, stats, reports, sinkErrs, killed, processed, renderVars, rankVars>>

\* the dump written to the text file in every mode
PrintPacketDumpAlways ==
  /\ pc = "PrintPacket" /\ ~killed
  /\ console' = console \o ConsoleLines(cur, cfg.Verbose, cfg.PayloadLen)
  /\ IF outFile # "none"
     THEN \E ok1 \in BOOLEAN, ok2 \in BOOLEAN :
            /\ sinkErrs + (IF ok1 THEN 0 ELSE 1) + (IF ok2 THEN 0 ELSE 1) <= MaxSinkErrs
            /\ textFile' = textFile
                 \o (IF ok1 THEN <<Summary(cur, cfg.PayloadLen)>> ELSE <<>>)
                 \o (IF ok2 THEN <<Dump(cur)>> ELSE <<>>)
            /\ sinkErrs' = sinkErrs + (IF ok1 THEN 0 ELSE 1) + (IF ok2 THEN 0 ELSE 1)
     ELSE UNCHANGED <<textFile, sinkErrs>>
  /\ pc' = "PcapWrite"
  /\ UNCHANGED <<cfg, err, handle, linkType, outFile, pcapFile, defers, acquireLog,
                 closeLog, subscribed, signalChan, stopChan, stopCloses, lpc,
                 reader, packetChan, produced, cur, count, pcapOut, stats,
                 reports, killed, cause, processed, renderVars, rankVars>>

\* line 280: printPacketInfo(packet, config.Verbose, outFile, config.PayloadLen).
\* The console always gets the summary (and the dump when verbose); the text
\* file gets them when outFile != nil, each WriteString failing or not.
PrintPacket ==
  /\ pc = "PrintPacket" /\ ~killed
  /\ console' = console \o ConsoleLines(cur, cfg.Verbose, cfg.PayloadLen)
  /\ IF outFile # "none"
     THEN \E ok1 \in BOOLEAN, ok2 \in (IF cfg.Verbose THEN BOOLEAN ELSE {TRUE}) :
            /\ sinkErrs + (IF ok1 THEN 0 ELSE 1) + (IF ok2 THEN 0 ELSE 1) <= MaxSinkErrs
            /\ textFile' = textFile
                 \o (IF ok1 THEN <<Summary(cur, cfg.PayloadLen)>> ELSE <<>>)
                 \o (IF cfg.Verbose /\ ok2 THEN <<Dump(cur)>> ELSE <<>>)
            /\ sinkErrs' = sinkErrs + (IF ok1 THEN 0 ELSE 1) + (IF ok2 THEN 0 ELSE 1)
     ELSE UNCHANGED <<textFile, sinkErrs>>
  /\ pc' = "PcapWrite"
  /\ UNCHANGED <<cfg, err, handle, linkType, outFile, pcapFile, defers, acquireLog,
                 closeLog, subscribed, signalChan, stopChan, stopCloses, lpc,
                 reader, packetChan, produced, cur, count, pcapOut, stats,
                 reports, killed, cause, processed, renderVars, rankVars>>
\* a record that takes the captured length for the length on the wire
PcapRecordCaplen(f) ==
  [kind |-> "record", snaplen |-> 0, ci |-> <<f.ts, Len(f.data), Len(f.data)>>,
   data |-> f.data]

\* a record of the pcap file: the frame's capture info and raw bytes
PcapRecord(f) ==
  [kind |-> "record", snaplen |-> 0, ci |-> <<f.ts, Len(f.data), f.Length>>,
   data |-> f.data]

\* a failure of WritePacket returned as the error of StartSniffer
PcapWriteFatal ==
  /\ pc = "PcapWrite" /\ ~killed
  /\ IF pcapFile # "none"
     THEN \E ok \in BOOLEAN :
            IF ok
            THEN /\ pcapOut' = Append(pcapOut, PcapRecord(cur))
                 /\ UNCHANGED <<sinkErrs, err>> /\ pc' = "Stats"
            ELSE /\ sinkErrs < MaxSinkErrs
                 /\ pcapOut' = pcapOut /\ sinkErrs' = sinkErrs + 1
                 /\ err' = "write" /\ pc' = "Return"
     ELSE UNCHANGED <<pcapOut, sinkErrs, err>> /\ pc' = "Stats"
  /\ UNCHANGED <<cfg, handle, linkType, outFile, pcapFile, defers, acquireLog,
                 closeLog, subscribed, signalChan, stopChan, stopCloses, lpc,
                 reader, packetChan, produced, cur, count, console, textFile,
                 stats, reports, killed, cause, processed, renderVars, rankVars>>

\* lines 283-287: pcapWriter.WritePacket when pcapWriter != nil; a failure is
\* logged
PcapWrite ==
  /\ pc = "PcapWrite" /\ ~killed
  /\ IF pcapFile # "none"
     THEN \E ok \in BOOLEAN :
            IF ok
            THEN pcapOut' = Append(pcapOut, PcapRecord(cur)) /\ sinkErrs' = sinkErrs
            ELSE /\ sinkErrs < MaxSinkErrs
                 /\ pcapOut' = pcapOut /\ sinkErrs' = sinkErrs + 1
     ELSE UNCHANGED <<pcapOut, sinkErrs>>
  /\ pc' = "Stats"
  /\ UNCHANGED <<cfg, err, handle, linkType, outFile, pcapFile, defers, acquireLog,
                 closeLog, subscribed, signalChan, stopChan, stopCloses, lpc,
                 reader, packetChan, produced, cur, count, console, textFile,
                 stats, reports, killed, cause, processed, renderVars, rankVars>>

\* lines 290-292: stats.AddPacket(packet) when stats != nil
Stats ==
  /\ pc = "Stats" /\ ~killed
  /\ stats' = IF stats.on THEN AddPacket(stats, cur) ELSE stats
  /\ pc' = "Count"
  /\ UNCHANGED <<cfg, err, handle, linkType, outFile, pcapFile, defers, acquireLog,
                 closeLog, subscribed, signalChan, stopChan, stopCloses, lpc,
                 reader, packetChan, produced, cur, count, console, textFile,
                 pcapOut, reports, sinkErrs, killed, cause, processed, renderVars, rankVars>>

\* the budget check without the test for an unbounded budget
BudgetReachedAny(c, budget) == c >= budget

\* the budget check with > for >=
BudgetReachedLate(c, budget) == budget > 0 /\ c > budget

\* config.Count > 0 && count >= config.Count
BudgetReached(c, budget) == budget > 0 /\ c >= budget

\* the budget check made on the value count had before count++
CountCheckedFirst ==
  /\ pc = "Count" /\ ~killed
  /\ count' = count + 1
  /\ pc' = IF BudgetReached(count, cfg.Count) THEN "Report" ELSE "Select"
  /\ cause' = IF BudgetReached(count, cfg.Count) THEN "budget" ELSE cause
  /\ UNCHANGED <<cfg, err, handle, linkType, outFile, pcapFile, defers, acquireLog,
                 closeLog, subscribed, signalChan, stopChan, stopCloses, lpc,
                 reader, packetChan, produced, cur, console, textFile, pcapOut,
                 stats, reports, sinkErrs, killed, processed, renderVars, rankVars>>

\* lines 294-297: count++ and the budget check
Count ==
  /\ pc = "Count" /\ ~killed
  /\ count' = count + 1
  /\ pc' = IF BudgetReached(count + 1, cfg.Count) THEN "Report" ELSE "Select"
  /\ cause' = IF BudgetReached(count + 1, cfg.Count) THEN "budget" ELSE cause
  /\ UNCHANGED <<cfg, err, handle, linkType, outFile, pcapFile, defers, acquireLog,
                 closeLog, subscribed, signalChan, stopChan, stopCloses, lpc,
                 reader, packetChan, produced, cur, console, textFile, pcapOut,
                 stats, reports, sinkErrs, killed, processed, renderVars, rankVars>>

\* PrintStats called without the test for nil
ReportAlways ==
  /\ pc = "Report" /\ ~killed
  /\ reports' = Append(reports, stats.PacketCount)
  /\ err' = "nil"
  /\ pc' = "Return"
  /\ UNCHANGED <<cfg, handle, linkType, outFile, pcapFile, defers, acquireLog, closeLog,
                 subscribed, signalChan, stopChan, stopCloses, lpc, reader,
                 packetChan, produced, cur, count, console, textFile, pcapOut,
                 stats, sinkErrs, killed, cause, processed, renderVars, rankVars>>

\* lines 306-311: stats.PrintStats() when stats != nil, then return nil
Report ==
  /\ pc = "Report" /\ ~killed
  /\ reports' = IF stats.on THEN Append(reports, stats.PacketCount) ELSE reports
  /\ err' = "nil"
  /\ pc' = "Return"
  /\ UNCHANGED <<cfg, handle, linkType, outFile, pcapFile, defers, acquireLog, closeLog,
                 subscribed, signalChan, stopChan, stopCloses, lpc, reader,
                 packetChan, produced, cur, count, console, textFile, pcapOut,
                 stats, sinkErrs, killed, cause, processed, renderVars, rankVars>>

\* deferred calls run in the order they were registered
NextDeferredFIFO(d) == d[1]

\* the deferred call that runs next: the one registered last
NextDeferred(d) == d[Len(d)]

\* the Close calls made at the end of the loop, before the report
RunDeferredEarly ==
  /\ pc \in {"Report", "Return"} /\ ~killed
  /\ defers # <<>>
  /\ LET r == NextDeferred(defers) IN
       /\ closeLog' = Append(closeLog, r)
       /\ handle' = IF r = "handle" THEN "closed" ELSE handle
       /\ outFile' = IF r = "outFile" THEN "closed" ELSE outFile
       /\ pcapFile' = IF r = "pcapFile" THEN "closed" ELSE pcapFile
       /\ defers' = SelectSeq(defers, LAMBDA x : x # r)
  /\ UNCHANGED <<cfg, pc, err, linkType, acquireLog, subscribed, signalChan, stopChan,
                 stopCloses, lpc, reader, packetChan, produced, cur, count,
                 console, textFile, pcapOut, stats, reports, sinkErrs,
                 killed, cause, processed, renderVars, rankVars>>

\* on return, one deferred Close (lines 208, 224, 234) runs
RunDeferred ==
  /\ pc = "Return" /\ ~killed
  /\ defers # <<>>
  /\ LET r == NextDeferred(defers) IN
       /\ closeLog' = Append(closeLog, r)
       /\ handle' = IF r = "handle" THEN "closed" ELSE handle
       /\ outFile' = IF r = "outFile" THEN "closed" ELSE outFile
       /\ pcapFile' = IF r = "pcapFile" THEN "closed" ELSE pcapFile
       /\ defers' = SelectSeq(defers, LAMBDA x : x # r)
  /\ UNCHANGED <<cfg, pc, err, linkType, acquireLog, subscribed, signalChan, stopChan,
                 stopCloses, lpc, reader, packetChan, produced, cur, count,
                 console, textFile, pcapOut, stats, reports, sinkErrs,
                 killed, cause, processed, renderVars, rankVars>>

\* every deferred call has run: StartSniffer has returned err
\* the return with the subscription removed on the way out, as a deferred
\* signal.Stop(signalChan) would do
ReturnedUnsubscribes ==
  /\ pc = "Return" /\ ~killed
  /\ defers = <<>>
  /\ pc' = "Done"
  /\ subscribed' = FALSE
  /\ UNCHANGED <<cfg, err, handle, linkType, outFile, pcapFile, defers, acquireLog,
                 closeLog, signalChan, stopChan, stopCloses, lpc,
                 reader, packetChan, produced, cur, count, console, textFile,
                 pcapOut, stats, reports, sinkErrs, killed,
                 cause, processed, renderVars, rankVars>>

\* line 311 (and the returns of the failures): StartSniffer returns once
\* the deferred calls have run
Returned ==
  /\ pc = "Return" /\ ~killed
  /\ defers = <<>>
  /\ pc' = "Done"
  /\ UNCHANGED <<cfg, err, handle, linkType, outFile, pcapFile, defers, acquireLog,
                 closeLog, subscribed, signalChan, stopChan, stopCloses, lpc,
                 reader, packetChan, produced, cur, count, console, textFile,
                 pcapOut, stats, reports, sinkErrs, killed,
                 cause, processed, renderVars, rankVars>>

(***************************************************************************)
(* The interrupt listener goroutine, lines 261-266.                        *)
(***************************************************************************)
\* <-signalChan
ListenerRecv ==
  /\ lpc = "recv" /\ ~killed
  /\ signalChan > 0
  /\ signalChan' = signalChan - 1
  /\ lpc' = "close"
  /\ UNCHANGED <<cfg, pc, err, handle, linkType, outFile, pcapFile, defers, acquireLog,
                 closeLog, subscribed, stopChan, stopCloses, reader, packetChan,
                 produced, cur, count, console, textFile, pcapOut, stats,
                 reports, sinkErrs, killed, cause, processed, renderVars, rankVars>>

\* close(stopChan)
ListenerClose ==
  /\ lpc = "close" /\ ~killed
  /\ stopChan' = "closed"
  /\ stopCloses' = stopCloses + 1
  /\ lpc' = "sigstop"
  /\ UNCHANGED <<cfg, pc, err, handle, linkType, outFile, pcapFile, defers, acquireLog,
                 closeLog, subscribed, signalChan, reader, packetChan, produced,
                 cur, count, console, textFile, pcapOut, stats, reports,
                 sinkErrs, killed, cause, processed, renderVars, rankVars>>

\* signal.Stop(signalChan): no signal is relayed any more and, this being the
\* only subscription, the default disposition of the signals is back
ListenerSigStop ==
  /\ lpc = "sigstop" /\ ~killed
  /\ subscribed' = FALSE
  /\ lpc' = "done"
  /\ UNCHANGED <<cfg, pc, err, handle, linkType, outFile, pcapFile, defers, acquireLog,
                 closeLog, signalChan, stopChan, stopCloses, reader, packetChan,
                 produced, cur, count, console, textFile, pcapOut, stats,
                 reports, sinkErrs, killed, cause, processed, renderVars, rankVars>>

(***************************************************************************)
(* The environment: the operating system and the capture device.           *)
(***************************************************************************)
\* SIGINT or SIGTERM is sent to the process.  With the subscription in force
\* the signal is put in signalChan unless the channel is full (then it is
\* dropped); without it the default disposition ends the process.
Interrupt ==
  /\ ~killed
  /\ IF subscribed
     THEN /\ signalChan' = IF signalChan < 1 THEN signalChan + 1 ELSE signalChan
          /\ killed' = killed
     ELSE /\ killed' = TRUE
          /\ signalChan' = signalChan
  /\ UNCHANGED <<cfg, pc, err, handle, linkType, outFile, pcapFile, defers, acquireLog,
                 closeLog, subscribed, stopChan, stopCloses, lpc, reader,
                 packetChan, produced, cur, count, console, textFile, pcapOut,
                 stats, reports, sinkErrs, cause, processed, renderVars, rankVars>>

\* the reading goroutine puts the next captured frame in packetChan
FrameArrive ==
  /\ ~killed
  /\ reader = "running" /\ handle = "open"
  /\ produced < MaxFrames
  /\ packetChan' = Append(packetChan, StreamFrame(produced + 1))
  /\ produced' = produced + 1
  /\ UNCHANGED <<cfg, pc, err, handle, linkType, outFile, pcapFile, defers, acquireLog,
                 closeLog, subscribed, signalChan, stopChan, stopCloses, lpc,
                 reader, cur, count, console, textFile, pcapOut, stats, reports,
                 sinkErrs, killed, cause, processed, renderVars, rankVars>>

\* the read of the handle fails or ends (device closed or errored): the
\* reading goroutine closes packetChan
StreamEnd ==
  /\ ~killed
  /\ reader = "running"
  /\ reader' = "ended"
  /\ UNCHANGED <<cfg, pc, err, handle, linkType, outFile, pcapFile, defers, acquireLog,
                 closeLog, subscribed, signalChan, stopChan, stopCloses, lpc,
                 packetChan, produced, cur, count, console, textFile, pcapOut,
                 stats, reports, sinkErrs, killed, cause, processed, renderVars, rankVars>>

SessionNext ==
  \/ OpenLive \/ SetFilter \/ CreateOut \/ CreatePcap \/ WriteHeader
  \/ Notify \/ Packets \/ GoListener
  \/ RecvFrame \/ RecvClosed \/ RecvStop
  \/ PrintPacket \/ PcapWrite \/ Stats \/ Count \/ Report
  \/ RunDeferred \/ Returned
  \/ ListenerRecv \/ ListenerClose \/ ListenerSigStop
  \/ Interrupt \/ FrameArrive \/ StreamEnd

Next == SessionNext

Spec == Init /\ [][Next]_vars

\* the steps of the goroutine that runs StartSniffer
MainStep ==
  \/ OpenLive \/ SetFilter \/ CreateOut \/ CreatePcap \/ WriteHeader
  \/ Notify \/ Packets \/ GoListener
  \/ RecvFrame \/ RecvClosed \/ RecvStop
  \/ PrintPacket \/ PcapWrite \/ Stats \/ Count \/ Report
  \/ RunDeferred \/ Returned

\* the steps of the listener goroutine
ListenerStep == ListenerRecv \/ ListenerClose \/ ListenerSigStop

\* The Go scheduler runs every goroutine that can take a step; nothing is
\* assumed of the environment (signals, frames, end of the stream).
LiveSpec == Init /\ [][Next]_vars /\ WF_vars(MainStep) /\ WF_vars(ListenerStep)

(***************************************************************************)
(* The rendering functions applied to inputs drawn from bounded sets.      *)
(***************************************************************************)
\* payload bytes tried at every length: an unprintable byte and a letter
NarrowBytes == {0, 65}

\* further payload bytes tried in short payloads: TAB, LF, CR, the ends of
\* the printable range and their neighbours, the highest byte
WideBytes == {9, 10, 13, 31, 32, 126, 127, 255}

\* payloadLen values tried: off, cuts of the payload, and the default
PreviewLens == {0, 1, MaxWide, MaxPayload, DefaultPayloadLen}

\* Ethernet/IPv4/UDP frame whose application payload is p
PayloadFrame(p) ==
  [UdpFrame EXCEPT !.Length = 42 + Len(p), !.app = p, !.data = p]

\* frames given to printPacketInfo besides those carrying the drawn payload
DecodeFrames ==
  {GarbageFrame(0), GarbageFrame(1), GarbageFrame(60), SynFrame, UdpFrame,
   DnsQueryFrame, DnsTwoQuestionsFrame, DnsResponseFrame,
   Tunnel6in4Frame, VxlanFrame, LoopbackSynFrame}

\* TCP segments with every combination of the six flags
TcpFlagFrames ==
  {[SynFrame EXCEPT !.tcp.SYN = syn, !.tcp.ACK = ack, !.tcp.FIN = fin,
                    !.tcp.RST = rst, !.tcp.PSH = psh, !.tcp.URG = urg] :
     syn \in BOOLEAN, ack \in BOOLEAN, fin \in BOOLEAN,
     rst \in BOOLEAN, psh \in BOOLEAN, urg \in BOOLEAN}

RenderInit ==
  /\ SessionInit /\ cfg.Count = 0 /\ ~cfg.Output /\ ~cfg.SavePcap
  /\ ~cfg.Statistics /\ ~cfg.Verbose
  /\ RenderIdle /\ RankIdle

\* one more byte of input payload
AppendByte ==
  /\ rpc = "input"
  /\ \E b \in NarrowBytes \cup WideBytes :
       LET p == Append(payload, b) IN
         /\ \/ Len(p) <= MaxWide
            \/ Len(p) <= MaxPayload /\ \A i \in 1..Len(p) : p[i] \in NarrowBytes
         /\ payload' = p
  /\ UNCHANGED <<sessionVars, rankVars, frame, plen, rpc, preview, summary>>

\* formatPayload(payload), as printPacketInfo calls it: on a payload that
\* is not empty
FormatPayload ==
  /\ rpc = "input" /\ payload # <<>>
  /\ preview' = formatPayload(payload)
  /\ rpc' = "formatted"
  /\ UNCHANGED <<sessionVars, rankVars, payload, frame, plen, summary>>

\* printPacketInfo(packet, _, _, payloadLen) on a frame carrying the drawn
\* payload, or on one of DecodeFrames
PrintPacketInfo ==
  /\ rpc = "input"
  /\ \E f \in {PayloadFrame(payload)} \cup (IF payload = <<>> THEN DecodeFrames \cup TcpFlagFrames ELSE {}),
        n \in PreviewLens :
       /\ frame' = f
       /\ plen' = n
       /\ summary' = Summary(f, n)
  /\ rpc' = "printed"
  /\ UNCHANGED <<sessionVars, rankVars, payload, preview>>

RenderNext == AppendByte \/ FormatPayload \/ PrintPacketInfo

RenderSpec == RenderInit /\ [][RenderNext]_vars

(***************************************************************************)
(* PacketStats fed by a sequence of AddPacket calls.                       *)
(***************************************************************************)
\* IPv4 in IPv4 (IP protocol 4) carrying TCP: the IPv4 layer is decoded twice
TunnelFrame ==
  [SynFrame EXCEPT !.Length = 80, !.layers = <<"Ethernet", "IPv4", "IPv4", "TCP">>]

\* the frames recorded: TCP, UDP, and one with a layer type decoded twice
StatFrames == {SynFrame, UdpFrame, TunnelFrame}

\* a UDP datagram over IPv6
Ip6UdpFrame ==
  [UdpFrame EXCEPT !.ts = 8, !.Length = 66,
     !.layers = <<"Ethernet", "IPv6", "UDP", "Payload">>,
     !.SrcIP = 0, !.DstIP = 0, !.SrcIP6 = 62, !.DstIP6 = 61]

\* frames with both network layers, both transport layers, IPv6 only, and
\* no network layer at all
MixedFrames == {Tunnel6in4Frame, VxlanFrame, Ip6UdpFrame, GarbageFrame(60)}

StatsInit == RenderInit

\* stats = NewPacketStats()
NewStats ==
  /\ ~stats.on
  /\ stats' = NewPacketStats
  /\ UNCHANGED <<cfg, pc, err, handle, linkType, outFile, pcapFile, defers, acquireLog,
                 closeLog, subscribed, signalChan, stopChan, stopCloses, lpc,
                 reader, packetChan, produced, cur, count, console, textFile,
                 pcapOut, reports, sinkErrs, killed, cause, processed, renderVars, rankVars>>

\* stats.AddPacket(packet)
AddPacketCall ==
  /\ stats.on /\ Len(processed) < MaxRecorded
  /\ \E f \in StatFrames \cup MixedFrames :
       /\ \/ Len(processed) < MaxMixed
          \/ f \in StatFrames /\ \A i \in 1..Len(processed) : processed[i] \in StatFrames
       /\ stats' = AddPacket(stats, f)
       /\ processed' = Append(processed, f)
  /\ UNCHANGED <<cfg, pc, err, handle, linkType, outFile, pcapFile, defers, acquireLog,
                 closeLog, subscribed, signalChan, stopChan, stopCloses, lpc,
                 reader, packetChan, produced, cur, count, console, textFile,
                 pcapOut, reports, sinkErrs, killed, cause, renderVars, rankVars>>

StatsNext == NewStats \/ AddPacketCall

StatsSpec == StatsInit /\ [][StatsNext]_vars

(***************************************************************************)
(* The ranking applied to counter maps drawn from a bounded set.  A Go map *)
(* is ranged over in an order the language leaves unspecified: every order *)
(* of the keys is possible, in every call.                                 *)
(***************************************************************************)
\* counts tried for a key
CountValues == {1, 2}

\* counter maps of at most MaxKeys keys
CounterMaps ==
  UNION {[K -> CountValues] : K \in SUBSET (1..MaxKeys)}

\* values of n tried: none, fewer than, as many as and more than the keys,
\* and the n of PrintStats
TopNs == (0..(MaxKeys + 1)) \cup {TopCount}

RankInit ==
  /\ SessionInit /\ cfg.Count = 0 /\ ~cfg.Output /\ ~cfg.SavePcap
  /\ ~cfg.Statistics /\ ~cfg.Verbose
  /\ RenderIdle
  /\ items \in CounterMaps /\ topn \in TopNs
  /\ sorted = <<>> /\ ranked = <<>> /\ first = <<>> /\ calls = 1
  /\ kpc = "range"

\* the keys the range has visited
Visited == {sorted[i].Key : i \in 1..Len(sorted)}

\* one iteration of for k, v := range items: sorted = append(sorted, kv{k, v})
RangeItems ==
  /\ kpc = "range"
  /\ \E k \in DOMAIN items \ Visited : sorted' = Append(sorted, kv(k, items[k]))
  /\ UNCHANGED <<sessionVars, renderVars, items, topn, ranked, first, calls, kpc>>

\* the range is over: the slice is sorted and its first entries printed, by
\* printTopItems for a map of addresses, by printTopItemsUint16 for ports
SortAndPrint ==
  /\ kpc = "range" /\ Visited = DOMAIN items
  /\ \E out \in {printTopItems(sorted, topn), printTopItemsUint16(sorted, topn)} :
       ranked' = out
  /\ kpc' = "printed"
  /\ UNCHANGED <<sessionVars, renderVars, items, topn, sorted, first, calls>>

\* the routine is called once more on the same map
CallAgain ==
  /\ kpc = "printed" /\ calls = 1
  /\ first' = ranked /\ calls' = 2
  /\ sorted' = <<>> /\ ranked' = <<>> /\ kpc' = "range"
  /\ UNCHANGED <<sessionVars, renderVars, items, topn>>

RankNext == RangeItems \/ SortAndPrint \/ CallAgain

RankSpec == RankInit /\ [][RankNext]_vars

(***************************************************************************)
(* Properties.                                                             *)
(***************************************************************************)
Reverse(q) == [i \in 1..Len(q) |-> q[Len(q) + 1 - i]]

\* StartSniffer has returned
HasReturned == pc = "Done"

\* C1: when StartSniffer has returned a non-nil error, no handle it had
\* acquired (capture handle, text file, pcap file) is still open.
C1_NoOpenHandleAfterError ==
  (HasReturned /\ err # "nil") =>
     /\ handle # "open" /\ outFile # "open" /\ pcapFile # "open"
     /\ \A i \in 1..Len(acquireLog) : \E j \in 1..Len(closeLog) : closeLog[j] = acquireLog[i]

\* the pcap header write failed with all three handles acquired, and
\* StartSniffer has returned that error
C1_Witness ==
  /\ HasReturned /\ err = "header"
  /\ acquireLog = <<"handle", "outFile", "pcapFile">>
  /\ handle = "closed" /\ outFile = "closed" /\ pcapFile = "closed"

\* C2: on every exit path of StartSniffer the handles acquired are released
\* exactly once each, in the reverse order of their acquisition.
C2_ReleasedOnceInReverseOrder ==
  HasReturned => closeLog = Reverse(acquireLog)

\* a session that captured with all three handles has returned
C2_Witness ==
  /\ HasReturned /\ err = "nil" /\ count > 0
  /\ closeLog = <<"pcapFile", "outFile", "handle">>

\* a line of the console or of the text file that is a packet dump
IsDump(line) == line # <<>> /\ line[1].tag = "dump"

\* number of summary lines among lines
SummaryCount(lines) == Cardinality({i \in 1..Len(lines) : ~IsDump(lines[i])})

\* an interrupt has reached the process
Interrupted == signalChan > 0 \/ lpc \notin {"none", "recv"} \/ killed

\* C3: with a budget N > 0, a stream that delivers at least N frames and no
\* interrupt, the session ends on its own, having processed and printed a
\* summary for exactly N frames.
C3_BudgetExhaustion ==
  /\ [](HasReturned /\ err = "nil" /\ cfg.Count > 0 /\ produced >= cfg.Count
          /\ ~Interrupted
        => cause = "budget" /\ count = cfg.Count
           /\ SummaryCount(console) = cfg.Count)
  /\ (cfg.Count > 0 /\ produced >= cfg.Count) ~> (HasReturned \/ Interrupted)

\* budget 1, two frames delivered, no interrupt: the session has ended after
\* one frame, the second is still in the channel
C3_Witness ==
  /\ HasReturned /\ cause = "budget" /\ ~Interrupted
  /\ cfg.Count = 1 /\ produced = 2 /\ count = 1
  /\ SummaryCount(console) = 1 /\ Len(packetChan) = 1

\* number of Close calls made on resource r
Closes(r) == Cardinality({j \in 1..Len(closeLog) : closeLog[j] = r})

\* the session is Capturing or Stopping: the listener has been started and
\* StartSniffer has not returned
CapturingOrStopping == lpc # "none" /\ ~HasReturned

\* C4: stop is idempotent: with two or more interrupts delivered while the
\* session is Capturing or Stopping the stop channel is closed at most once,
\* no resource is closed twice, at most one report is printed, and the
\* finalization still takes place as it does after a single interrupt (the
\* session is not ended without it).
C4_StopIdempotent ==
  /\ stopCloses <= 1
  /\ \A r \in {"handle", "outFile", "pcapFile"} : Closes(r) <= 1
  /\ Len(reports) <= 1
  /\ CapturingOrStopping => ~killed

\* C5: whatever made the loop stop (interrupt, budget, end of the stream),
\* StartSniffer returns nil after printing the report exactly when statistics
\* are enabled and closing every sink it opened and the capture handle.
C5_SameFinalization ==
  (HasReturned /\ cause # "none") =>
     /\ err = "nil"
     /\ Len(reports) = (IF cfg.Statistics THEN 1 ELSE 0)
     /\ handle = "closed"
     /\ outFile = (IF cfg.Output THEN "closed" ELSE "none")
     /\ pcapFile = (IF cfg.SavePcap THEN "closed" ELSE "none")

\* an interrupted session with statistics and both sinks has returned
C5_Witness ==
  /\ HasReturned /\ cause = "stop" /\ err = "nil"
  /\ cfg.Statistics /\ Len(reports) = 1
  /\ handle = "closed" /\ outFile = "closed" /\ pcapFile = "closed"

\* C6: once the listener has requested stop (closed the stop channel), the
\* loop leaves Capturing and the session reaches Closed, whether or not a
\* further frame arrives.
C6_StopLeadsToClosed == (stopChan = "closed") ~> HasReturned

\* the pieces of a summary line that carry the given tag
PiecesOf(line, tag) == {i \in 1..Len(line) : line[i].tag = tag}

\* C7: for every frame, a zero-length frame and a frame with no recognised
\* layer included, printPacketInfo prints a summary line that is not empty
\* and contains the total-length field.
C7_SummaryHasLength ==
  rpc = "printed" => summary # <<>> /\ PiecesOf(summary, "length") # {}

\* the preview bytes of the printed frame: the first min(plen, len) bytes
PreviewBytes == SubSeq(frame.app, 1, IF plen < Len(frame.app) THEN plen ELSE Len(frame.app))

\* bytes that are neither printable ASCII nor CR, LF or TAB
UnprintableCount(p) ==
  Cardinality({i \in 1..Len(p) : p[i] \notin (32..126) \cup {13, 10, 9}})

\* value of a lowercase hex digit given by its character code, -1 otherwise
HexValue(c) ==
  IF c \in 48..57 THEN c - 48 ELSE IF c \in 97..102 THEN c - 87 ELSE 0 - 1

\* s is the lowercase hexadecimal text of the bytes p
IsLowerHexOf(s, p) ==
  /\ Len(s) = 2 * Len(p)
  /\ \A i \in 1..Len(p) :
       /\ HexValue(s[2 * i - 1]) >= 0 /\ HexValue(s[2 * i]) >= 0
       /\ 16 * HexValue(s[2 * i - 1]) + HexValue(s[2 * i]) = p[i]

\* the character the ASCII rendering shows for byte b
RenderedChar(b) ==
  IF b \in 32..126 THEN b ELSE IF b \in {13, 10, 9} THEN 32 ELSE 46

\* s is r without its leading and trailing spaces, and nothing else changed
IsTrimOf(s, r) ==
  /\ s # <<>> => s[1] # 32 /\ s[Len(s)] # 32
  /\ \E a \in 0..Len(r) :
       /\ a + Len(s) <= Len(r)
       /\ \A i \in 1..Len(s) : s[i] = r[a + i]
       /\ \A i \in 1..Len(r) : (i <= a \/ i > a + Len(s)) => r[i] = 32

\* the byte-by-byte ASCII rendering of the bytes p
AsciiRendering(p) == [i \in 1..Len(p) |-> RenderedChar(p[i])]

\* a frame with a preview has been printed
PreviewPrinted == rpc = "printed" /\ plen > 0 /\ frame.hasApp /\ Len(frame.app) > 0

\* the text of the Payload piece of the printed summary
PrintedPreview == summary[CHOOSE i \in PiecesOf(summary, "Payload") : TRUE].n

\* C8: with n preview bytes (the first min(payloadLen, len(payload)) bytes)
\* of which u are unprintable, the preview is the lowercase hex of exactly
\* those n bytes, 2n characters long, if and only if 10u > 3n, and it is
\* the ASCII rendering of those bytes when 10u <= 3n.
C8_HexIffOverThreshold ==
  PreviewPrinted =>
     /\ Cardinality(PiecesOf(summary, "Payload")) = 1
     /\ IsLowerHexOf(PrintedPreview, PreviewBytes)
          <=> (10 * UnprintableCount(PreviewBytes) > 3 * Len(PreviewBytes))
     /\ 10 * UnprintableCount(PreviewBytes) <= 3 * Len(PreviewBytes)
          => IsTrimOf(PrintedPreview, AsciiRendering(PreviewBytes))

\* exactly 3 unprintable bytes among 10 preview bytes: the fraction is 0.3
\* and the preview is not hex
C8_Witness ==
  /\ PreviewPrinted
  /\ Len(PreviewBytes) = 10 /\ UnprintableCount(PreviewBytes) = 3
  /\ ~IsLowerHexOf(PrintedPreview, PreviewBytes)

\* C9: when at most 0.3 of the bytes are unprintable, formatPayload returns
\* the byte-by-byte ASCII rendering (printable kept, CR/LF/TAB as a space,
\* any other byte as '.') without its leading and trailing white space.
C9_AsciiRendering ==
  (rpc = "formatted" /\ 10 * UnprintableCount(payload) <= 3 * Len(payload)) =>
     IsTrimOf(preview, AsciiRendering(payload))

\* "\t~\x7f\n": one unprintable byte among four, white space at both ends
C9_Witness ==
  /\ rpc = "formatted"
  /\ payload = <<9, 126, 127, 10>>
  /\ preview = <<126, 46>>

\* q without its last element
Front(q) == SubSeq(q, 1, Len(q) - 1)

\* frames that have gone through printPacketInfo, and through the pcap write
FramesPrinted == IF pc = "PrintPacket" THEN Front(processed) ELSE processed
FramesPcapDone ==
  IF pc \in {"PrintPacket", "PcapWrite"} THEN Front(processed) ELSE processed

\* the lines printPacketInfo prints for the frames fs, in order
RECURSIVE LinesFor(_)
LinesFor(fs) ==
  IF fs = <<>> THEN <<>>
  ELSE <<Summary(Head(fs), cfg.PayloadLen)>>
       \o (IF cfg.Verbose THEN <<<<[tag |-> "dump", s |-> <<>>, n |-> Head(fs).data]>>>> ELSE <<>>)
       \o LinesFor(Tail(fs))

\* the records the frames fs make in the pcap file: capture time, captured
\* length, length on the wire, raw bytes
RecordsFor(fs) ==
  [i \in 1..Len(fs) |->
     [kind |-> "record", snaplen |-> 0,
      ci |-> <<fs[i].ts, Len(fs[i].data), fs[i].Length>>, data |-> fs[i].data]]

\* a is b with some elements left out
RECURSIVE IsSubSeq(_, _)
IsSubSeq(a, b) ==
  IF a = <<>> THEN TRUE
  ELSE IF b = <<>> THEN FALSE
  ELSE IF Head(a) = Head(b) THEN IsSubSeq(Tail(a), Tail(b))
  ELSE IsSubSeq(a, Tail(b))

\* the records of the pcap file after its header
PcapRecords == SelectSeq(pcapOut, LAMBDA r : r.kind = "record")

\* C10: for every frame the loop has processed the summary is on the console
\* whatever the configuration; it is in the text file if and only if a text
\* path is configured, and the frame's raw bytes with its capture metadata
\* are in the pcap file if and only if a pcap path is configured, the only
\* lines and records missing being those whose write failed and was logged.
C10_EmitToConfiguredSinks ==
  LET lines == LinesFor(FramesPrinted)
      records == RecordsFor(FramesPcapDone)
  IN /\ console = lines
     /\ IF cfg.Output /\ outFile # "none"
        THEN IsSubSeq(textFile, lines) ELSE textFile = <<>>
     /\ IF cfg.SavePcap /\ pcapFile # "none"
        THEN IsSubSeq(PcapRecords, records) ELSE PcapRecords = <<>>
     /\ (Len(lines) - Len(textFile)) * (IF outFile # "none" THEN 1 ELSE 0)
        + (Len(records) - Len(PcapRecords)) * (IF pcapFile # "none" THEN 1 ELSE 0)
        = sinkErrs

\* two frames processed with both sinks configured and no write failure:
\* console, text file and pcap file hold both
C10_Witness ==
  /\ HasReturned /\ cfg.Output /\ cfg.SavePcap /\ cfg.Verbose
  /\ processed = <<SynFrame, UdpFrame>> /\ sinkErrs = 0
  /\ console = LinesFor(processed) /\ textFile = console
  /\ PcapRecords = RecordsFor(processed)

\* the pieces of the printed summary that are an application label: those
\* of no link, network or transport layer, nor the length or the preview
AppLabels ==
  {i \in 1..Len(summary) :
     summary[i].tag \notin {"eth", "IPv4", "IPv6", "TCP", "UDP", "ICMP", "ICMPv6",
                            "length", "Payload"}}

\* a frame with a decoded DNS message has been printed
DnsPrinted == rpc = "printed" /\ HasLayer(frame, "DNS")

\* the summary has one application label: the text query for a query
\* followed by the question names, the text response for a response followed
\* by the answer names, in message order
HasDnsLabel(query, response) ==
  \E i \in 1..Len(summary) :
     /\ AppLabels = {i}
     /\ summary[i].tag = (IF frame.dns.QR THEN response ELSE query)
     /\ summary[i].s = (IF frame.dns.QR THEN frame.dns.Answers ELSE frame.dns.Questions)

At(m, k) == IF k \in DOMAIN m THEN m[k] ELSE 0

\* the layers decoded in the frames fs, as <<frame index, layer index>>
LayersIn(fs) ==
  UNION {{<<i, j>> : j \in 1..Len(fs[i].layers)} : i \in 1..Len(fs)}

\* the number of decoded layers of type L in the frames fs
LayerTotal(fs, L) ==
  Cardinality({ij \in LayersIn(fs) : fs[ij[1]].layers[ij[2]] = L})

\* the names of the layer types
LayerNames ==
  {"Ethernet", "IPv4", "IPv6", "TCP", "UDP", "ICMPv4", "ICMPv6", "DNS",
   "Payload", "DecodeFailure", "VXLAN"}

\* the sum of the values of counter map m
RECURSIVE SumOf(_)
SumOf(m) ==
  IF DOMAIN m = {} THEN 0
  ELSE LET k == CHOOSE x \in DOMAIN m : TRUE
       IN m[k] + SumOf([x \in DOMAIN m \ {k} |-> m[x]])

\* C12: after any sequence of AddPacket calls PacketCount is the number of
\* frames recorded and ProtocolMap[L] is, for every layer name L, the total
\* number of decoded L layers of the recorded frames: the counts add up to
\* the number of layers decoded, none counted twice and none skipped.
C12_LayerCounts ==
  stats.on =>
     /\ stats.PacketCount = Len(processed)
     /\ DOMAIN stats.ProtocolMap \subseteq LayerNames
     /\ \A L \in LayerNames : At(stats.ProtocolMap, L) = LayerTotal(processed, L)
     /\ SumOf(stats.ProtocolMap) = Cardinality(LayersIn(processed))

\* 6 TCP frames and 4 UDP frames recorded: TCP = 6, UDP = 4, total = 10
C12_Witness ==
  /\ stats.on /\ Len(processed) = 10
  /\ Cardinality({i \in 1..10 : processed[i] = SynFrame}) = 6
  /\ Cardinality({i \in 1..10 : processed[i] = UdpFrame}) = 4
  /\ stats.ProtocolMap["TCP"] = 6 /\ stats.ProtocolMap["UDP"] = 4
  /\ stats.PacketCount = 10

\* frames that have gone through the statistics step, and through count++
FramesStatsDone ==
  IF pc \in {"PrintPacket", "PcapWrite", "Stats"} THEN Front(processed) ELSE processed
FramesCounted ==
  IF pc \in {"PrintPacket", "PcapWrite", "Stats", "Count"}
  THEN Front(processed) ELSE processed

\* C13: a write failure on the text file or the pcap file is only logged.
\* The step that failed is followed by the next step of the same frame, with
\* no error set and the loop not left; every frame taken, failed writes or
\* not, is recorded in the statistics and counted toward the budget; and a
\* session in which a write failed still ends by one of the three regular
\* exits with a nil error.
C13_WriteFailureNotFatal ==
  /\ [][sinkErrs' > sinkErrs =>
          pc' \in {"PcapWrite", "Stats"} /\ cause' = "none" /\ err' = "unset"]_vars
  /\ [](/\ count = Len(FramesCounted)
        /\ stats.on => stats.PacketCount = Len(FramesStatsDone)
        /\ (sinkErrs > 0 /\ pc \in {"Return", "Done"}) =>
              err = "nil" /\ cause \in {"closed", "budget", "stop"})

\* a write failed on the first of two frames; both are in the statistics and
\* both counted, and the budget of 2 ended the session
C13_Witness ==
  /\ HasReturned /\ sinkErrs = 1 /\ cfg.Count = 2 /\ cause = "budget"
  /\ Len(PcapRecords) = 1 /\ PcapRecords[1].data = UdpFrame.data
  /\ count = 2 /\ stats.on /\ stats.PacketCount = 2
  /\ SummaryCount(console) = 2

\* C14: with statistics enabled the report is printed exactly once on each
\* of the three ways out of the loop, and the frame count it shows is the
\* number of frames the loop processed and printed on the console; with
\* statistics disabled nothing is recorded and no report is printed.
C14_ReportOnceWithFrameCount ==
  /\ Len(reports) <= 1
  /\ (pc \in {"Return", "Done"} /\ cause # "none" /\ cfg.Statistics) =>
        /\ reports = <<Len(processed)>>
        /\ SummaryCount(console) = Len(processed)
  /\ ~cfg.Statistics => stats = NilStats /\ reports = <<>>
  /\ pc \notin {"Return", "Done"} => reports = <<>>

\* interrupted after one frame with a second frame still in the channel: the
\* report shows 1, the frame printed before the stop
C14_Witness ==
  /\ HasReturned /\ cause = "stop" /\ cfg.Statistics
  /\ produced = 2 /\ Len(packetChan) = 1
  /\ reports = <<1>> /\ SummaryCount(console) = 1

\* C15: the ranked list printed for a counter map is the same in every call:
\* the same keys in the same order, keys of equal count included.
C15_RankingDeterministic ==
  (calls = 2 /\ kpc = "printed") => ranked = first

\* the smaller of a and b
Min(a, b) == IF a < b THEN a ELSE b

\* the keys listed in the printed ranking
Listed == {ranked[i].Key : i \in 1..Len(ranked)}

\* C16: the top-n routine prints exactly min(n, number of keys) entries, in
\* non-increasing order of count, each key at most once and with its count
\* in the map, and no key left out has a larger count than a listed key.
C16_TopNCorrect ==
  kpc = "printed" =>
     /\ Len(ranked) = Min(topn, Cardinality(DOMAIN items))
     /\ \A i \in 1..(Len(ranked) - 1) : ranked[i].Value >= ranked[i + 1].Value
     /\ \A i, j \in 1..Len(ranked) : ranked[i].Key = ranked[j].Key => i = j
     /\ \A i \in 1..Len(ranked) :
          ranked[i].Key \in DOMAIN items /\ ranked[i].Value = items[ranked[i].Key]
     /\ \A k \in DOMAIN items \ Listed :
          \A i \in 1..Len(ranked) : items[k] <= ranked[i].Value

\* three keys with counts 1, 2, 2 and n = 2: the two keys of count 2 are
\* printed and the key of count 1 is left out
C16_Witness ==
  /\ kpc = "printed" /\ topn = 2
  /\ items = (1 :> 1) @@ (2 :> 2) @@ (3 :> 2)
  /\ Len(ranked) = 2 /\ Listed = {2, 3}

\* the positions of the global headers in the pcap file
PcapHeaders == {i \in 1..Len(pcapOut) : pcapOut[i].kind = "header"}

\* C17: with a pcap path configured the pcap file is one global header,
\* written before any frame is read and present even when no frame is
\* captured, carrying the effective snapshot length and the link type of the
\* opened handle, followed by one record per processed frame in arrival
\* order with the frame's own capture metadata and raw bytes (a record is
\* missing only where its write failed and was logged).  Without a pcap path
\* nothing is written.
C17_PcapHeaderThenRecords ==
  /\ ~cfg.SavePcap => pcapOut = <<>>
  /\ pcapOut # <<>> =>
        /\ PcapHeaders = {1}
        /\ handle # "none" /\ cfg.Snaplen > 0
        /\ pcapOut[1] = [kind |-> "header", snaplen |-> cfg.Snaplen,
                         linktype |-> linkType, ci |-> <<>>, data |-> <<>>]
  /\ (cfg.SavePcap /\ (reader # "none" \/ produced > 0 \/ err = "nil")) =>
        pcapOut # <<>>
  /\ pcapOut = <<>> => FramesPcapDone = <<>> \/ pcapFile = "none"
  /\ pcapOut # <<>> =>
        /\ IsSubSeq(PcapRecords, RecordsFor(FramesPcapDone))
        /\ Len(RecordsFor(FramesPcapDone)) - Len(PcapRecords) <= sinkErrs
        /\ sinkErrs = 0 => Tail(pcapOut) = RecordsFor(FramesPcapDone)

\* a session on a cooked-capture handle with the default snapshot length
\* that ended without a frame: the file is the header alone
C17_Witness ==
  /\ HasReturned /\ err = "nil" /\ cfg.SavePcap /\ processed = <<>>
  /\ linkType = 113
  /\ pcapOut = <<[kind |-> "header", snaplen |-> DefaultSnaplen, linktype |-> 113,
                  ci |-> <<>>, data |-> <<>>]>>

\* entries of the text file per frame: the summary, and the dump when verbose
LinesPerFrame == IF cfg.Verbose THEN 2 ELSE 1

\* the lines a summary takes in the file: the Payload piece starts with a
\* newline, so a summary with a preview is two lines
SummaryLines(e) == 1 + Cardinality(PiecesOf(e, "Payload"))

\* a payload preview is rendered for frame f
HasPreview(f) == cfg.PayloadLen > 0 /\ f.hasApp /\ Len(f.app) > 0

\* C18: with a text path configured the text file holds, for each processed
\* frame in arrival order, its rendered summary line, then the line of the
\* payload preview exactly when a preview is rendered for the frame, then
\* the frame's dump if and only if verbose mode is on, and nothing else (a
\* line is missing only where its write failed and was logged); without a
\* text path nothing is written.
C18_TextFileLines ==
  /\ ~cfg.Output => textFile = <<>>
  /\ ~cfg.Verbose => \A i \in 1..Len(textFile) : ~IsDump(textFile[i])
  /\ IsSubSeq(textFile, LinesFor(FramesPrinted))
  /\ (outFile # "none" /\ sinkErrs = 0) =>
        /\ Len(textFile) = LinesPerFrame * Len(FramesPrinted)
        /\ \A i \in 1..Len(FramesPrinted) :
             /\ textFile[LinesPerFrame * (i - 1) + 1]
                  = Summary(FramesPrinted[i], cfg.PayloadLen)
             /\ SummaryLines(textFile[LinesPerFrame * (i - 1) + 1])
                  = (IF HasPreview(FramesPrinted[i]) THEN 2 ELSE 1)
             /\ cfg.Verbose =>
                  textFile[LinesPerFrame * i] = Dump(FramesPrinted[i])
  /\ outFile # "none" =>
        Len(LinesFor(FramesPrinted)) - Len(textFile) <= sinkErrs

\* C18 as stated: per processed frame exactly one summary line, the dump
\* after it if and only if verbose, and no other line in the file.
C18_OneLinePerFrame ==
  /\ C18_TextFileLines
  /\ \A i \in 1..Len(textFile) :
       ~IsDump(textFile[i]) => SummaryLines(textFile[i]) = 1

\* a verbose session with a text file, no pcap file and a preview length of
\* 3 has processed two frames: the file holds summary, dump, summary with
\* the preview line of the UDP payload, dump
C18_Witness ==
  /\ HasReturned /\ cfg.Output /\ ~cfg.SavePcap /\ cfg.Verbose
  /\ processed = <<SynFrame, UdpFrame>> /\ HasPreview(UdpFrame)
  /\ textFile = <<Summary(SynFrame, cfg.PayloadLen), Dump(SynFrame),
                  Summary(UdpFrame, cfg.PayloadLen), Dump(UdpFrame)>>
  /\ SummaryLines(textFile[1]) = 1 /\ SummaryLines(textFile[3]) = 2

\* C19: when opening the interface or installing the filter has failed,
\* StartSniffer is returning that error and the session has not entered
\* Capturing: no frame read, no sink file created, no signal subscription, no
\* listener, no report.
C19_SetupFailureBeforeCapturing ==
  err \in {"open", "filter"} =>
     /\ pc \in {"Return", "Done"}
     /\ handle = (IF err = "open" THEN "none" ELSE IF defers = <<>> THEN "closed" ELSE "open")
     /\ reader = "none" /\ produced = 0 /\ processed = <<>> /\ count = 0
     /\ outFile = "none" /\ pcapFile = "none" /\ textFile = <<>> /\ pcapOut = <<>>
     /\ ~subscribed /\ signalChan = 0 /\ stopChan = "nil"
     /\ lpc = "none"
     /\ stats = NilStats /\ reports = <<>> /\ console = <<>>
     /\ cause = "none"

\* the filter was rejected in a session configured with both sinks and
\* statistics: StartSniffer has returned the error with only the handle
\* opened, and closed again
C19_Witness ==
  /\ HasReturned /\ err = "filter"
  /\ cfg.Output /\ cfg.SavePcap /\ cfg.Statistics
  /\ acquireLog = <<"handle">> /\ closeLog = <<"handle">>
  /\ outFile = "none" /\ pcapFile = "none" /\ lpc = "none" /\ reports = <<>>

BetweenFrames == killed \/ pc \in {"Select", "Report", "Return", "Done"}

\* C21: a frame is processed as one sequence of steps that an interrupt does
\* not cut short: whenever the loop task is not inside the sequence, an
\* interrupt having arrived in the middle of it or not, every frame emitted
\* on the console has been recorded in the statistics and counted.
C21_NoFrameHalfProcessed ==
  BetweenFrames =>
     /\ count = SummaryCount(console)
     /\ stats.on => stats.PacketCount = SummaryCount(console)

\* the positions of the loop task inside the capture loop
LoopPcs == {"Select", "PrintPacket", "PcapWrite", "Stats", "Count"}

\* C22: the loop is left only because the stop channel was closed by the
\* listener after an interrupt, because the count reached a budget greater
\* than 0, or because the frame channel was closed; with a budget of 0 the
\* number of frames processed never makes the loop exit.
C22_ThreeExitReasons ==
  /\ [][(pc \in LoopPcs /\ pc' \notin LoopPcs) =>
          \/ pc = "Select" /\ stopChan = "closed" /\ stopCloses = 1 /\ cause' = "stop"
          \/ pc = "Count" /\ cfg.Count > 0 /\ count' >= cfg.Count /\ cause' = "budget"
          \/ /\ pc = "Select" /\ reader = "ended" /\ packetChan = <<>>
             /\ cause' = "closed"]_vars
  /\ [](cfg.Count = 0 => cause # "budget")
  /\ [](pc \in LoopPcs => cause = "none")

\* unbounded budget: every frame of the stream has been processed and the
\* loop is back at the select
C22_Witness ==
  /\ cfg.Count = 0 /\ count = MaxFrames /\ produced = MaxFrames
  /\ pc = "Select" /\ cause = "none"

\* the network and the transport descriptors of the printed summary
NetworkPieces == PiecesOf(summary, "IPv4") \cup PiecesOf(summary, "IPv6")
TransportPieces ==
  PiecesOf(summary, "TCP") \cup PiecesOf(summary, "UDP")
    \cup PiecesOf(summary, "ICMP") \cup PiecesOf(summary, "ICMPv6")

\* C23: the summary of a frame holds at most one network descriptor (IPv4
\* or IPv6, never both) and at most one transport descriptor (one of TCP,
\* UDP, ICMP, ICMPv6).
C23_LayersExclusive ==
  rpc = "printed" =>
     Cardinality(NetworkPieces) <= 1 /\ Cardinality(TransportPieces) <= 1

\* the place of a component in the fixed order of the summary
Rank(tag) ==
  CASE tag = "eth" -> 1
    [] tag \in {"IPv4", "IPv6"} -> 2
    [] tag \in {"TCP", "UDP"} -> 3
    [] tag \in {"ICMP", "ICMPv6"} -> 4
    [] tag \in {" DNS Query", " DNS Response"} -> 5
    [] tag = "length" -> 6
    [] OTHER -> 7

\* the components of the printed summary are in the fixed order
InFixedOrder ==
  \A i, j \in 1..Len(summary) :
     i < j => Rank(summary[i].tag) <= Rank(summary[j].tag)

\* the printed summary starts with the timestamp of the frame; the timestamp
\* is an argument of the piece printed for the Ethernet layer only
StartsWithTimestamp ==
  /\ summary # <<>>
  /\ summary[1].n # <<>> /\ summary[1].tag = "eth" /\ summary[1].n[1] = frame.ts

\* C24: the summary of every frame is the concatenation, in the fixed order,
\* of the components present: timestamp, link addresses, network addresses,
\* transport descriptor, ICMP type and code, DNS label, total length; the
\* timestamp is there for every frame, whichever layers were decoded.
C24_FixedOrderWithTimestamp ==
  rpc = "printed" => InFixedOrder /\ StartsWithTimestamp

\* the six flags of a TCP header and their letters, in the order S A F R P U
FlagNames == <<"SYN", "ACK", "FIN", "RST", "PSH", "URG">>
FlagLetters == <<"S", "A", "F", "R", "P", "U">>

\* how many times letter l is in the flag string s
Occurrences(s, l) == Cardinality({i \in 1..Len(s) : s[i] = l})

\* the place of letter l in S A F R P U
LetterPlace(l) == CHOOSE k \in 1..6 : FlagLetters[k] = l

\* the flag string s is the one claimed for the TCP header t
FlagStringFor(s, t) ==
  /\ \A k \in 1..6 : Occurrences(s, FlagLetters[k]) = IF t[FlagNames[k]] THEN 1 ELSE 0
  /\ \A i \in 1..Len(s) : \E k \in 1..6 : s[i] = FlagLetters[k]
  /\ \A i, j \in 1..Len(s) : i < j => LetterPlace(s[i]) < LetterPlace(s[j])

\* C25: for every combination of the six TCP flags, the flag string of the
\* TCP descriptor holds the letter of each set flag exactly once, no letter
\* of an unset flag, and the letters in the order S, A, F, R, P, U.
C25_FlagLetters ==
  rpc = "printed" =>
     /\ HasLayer(frame, "TCP") => PiecesOf(summary, "TCP") # {}
     /\ \A i \in PiecesOf(summary, "TCP") : FlagStringFor(summary[i].s, frame.tcp)

\* a segment with all six flags set was printed with the string SAFRPU
C25_Witness ==
  /\ rpc = "printed"
  /\ \A k \in 1..6 : frame.tcp[FlagNames[k]]
  /\ \E i \in PiecesOf(summary, "TCP") : summary[i].s = FlagLetters

\* C26: once the listener has closed the stop channel, the loop takes no
\* further frame from the frame channel: no frame whose processing had not
\* begun is decoded, emitted or recorded, even if frames are available.
C26_NoFrameAfterStop ==
  [][stopChan = "closed" => processed' = processed]_vars

\* C27: under every interleaving of frame arrivals and interrupts, with a
\* budget N > 0 the number of frames processed, and so the number of
\* console summaries, of pcap records and of frames in the statistics, never
\* exceeds N; and the consumed count never decreases.
C27_BudgetNeverExceeded ==
  /\ [](cfg.Count > 0 =>
          /\ Len(processed) <= cfg.Count
          /\ count <= cfg.Count
          /\ SummaryCount(console) <= cfg.Count
          /\ SummaryCount(textFile) <= cfg.Count
          /\ Len(PcapRecords) <= cfg.Count
          /\ stats.PacketCount <= cfg.Count)
  /\ [][count' >= count]_vars

\* a budget of one frame, a second frame waiting on the channel and an
\* interrupt: the session returned with one frame processed
C27_Witness ==
  /\ HasReturned /\ cfg.Count = 1 /\ produced = 2 /\ packetChan # <<>>
  /\ Interrupted /\ cfg.SavePcap /\ cfg.Statistics
  /\ Len(processed) = 1 /\ count = 1 /\ SummaryCount(console) = 1
  /\ Len(PcapRecords) = 1 /\ stats.PacketCount = 1

\* the addresses and the ports the claim has AddPacket count for frame f:
\* IPv4 before IPv6, TCP before UDP, none when neither layer is there
CountedIPs(f) ==
  IF HasLayer(f, "IPv4") THEN <<f.SrcIP, f.DstIP>>
  ELSE IF HasLayer(f, "IPv6") THEN <<f.SrcIP6, f.DstIP6>> ELSE <<>>
CountedPorts(f) ==
  IF HasLayer(f, "TCP") THEN <<f.tcp.SrcPort, f.tcp.DstPort>>
  ELSE IF HasLayer(f, "UDP") THEN <<f.udp.SrcPort, f.udp.DstPort>> ELSE <<>>

\* the number of recorded frames for which Counted(f)[side] is the key k
TimesCounted(Counted(_), side, k) ==
  Cardinality({i \in 1..Len(processed) :
                 Counted(processed[i]) # <<>> /\ Counted(processed[i])[side] = k})

\* the counter map m holds, for every key, the number of recorded frames
\* counted under that key, and no other key
CountsExactly(m, Counted(_), side) ==
  /\ \A k \in DOMAIN m : m[k] = TimesCounted(Counted, side, k) /\ m[k] > 0
  /\ \A i \in 1..Len(processed) :
        Counted(processed[i]) # <<>> => Counted(processed[i])[side] \in DOMAIN m

\* C28: each AddPacket call increments at most one source-IP and one
\* destination-IP counter (IPv4 addresses if an IPv4 layer is present,
\* otherwise the IPv6 addresses) and at most one source-port and one
\* destination-port counter (TCP ports if a TCP layer is present, otherwise
\* the UDP ports): always sum(SourceIPs) = sum(DestIPs) <= PacketCount and
\* sum(SourcePorts) = sum(DestPorts) <= PacketCount.
C28_AddressAndPortCounters ==
  /\ [](stats.on =>
          /\ SumOf(stats.SourceIPs) = SumOf(stats.DestIPs)
          /\ SumOf(stats.SourceIPs) <= stats.PacketCount
          /\ SumOf(stats.SourcePorts) = SumOf(stats.DestPorts)
          /\ SumOf(stats.SourcePorts) <= stats.PacketCount
          /\ CountsExactly(stats.SourceIPs, CountedIPs, 1)
          /\ CountsExactly(stats.DestIPs, CountedIPs, 2)
          /\ CountsExactly(stats.SourcePorts, CountedPorts, 1)
          /\ CountsExactly(stats.DestPorts, CountedPorts, 2))
  /\ [][stats.on /\ stats'.PacketCount = stats.PacketCount + 1 =>
          /\ SumOf(stats'.SourceIPs) - SumOf(stats.SourceIPs) \in {0, 1}
          /\ SumOf(stats'.DestIPs) - SumOf(stats.DestIPs) \in {0, 1}
          /\ SumOf(stats'.SourcePorts) - SumOf(stats.SourcePorts) \in {0, 1}
          /\ SumOf(stats'.DestPorts) - SumOf(stats.DestPorts) \in {0, 1}]_vars

\* a 6in4 frame, a VXLAN frame and a frame with no network layer were
\* recorded: two frames counted once each, the third not at all
C28_Witness ==
  /\ stats.on /\ stats.PacketCount = 3
  /\ \E i, j, k \in 1..3 :
        /\ processed[i] = Tunnel6in4Frame /\ processed[j] = VxlanFrame
        /\ processed[k] = GarbageFrame(60)
  /\ SumOf(stats.SourceIPs) = 2 /\ SumOf(stats.SourcePorts) = 2
  /\ At(stats.SourceIPs, 61) = 0 /\ At(stats.SourcePorts, 49152) = 0

\* C29: the listener ends and the subscription is removed only on the
\* interrupt path.  When the session ends by the budget or by the end of
\* the stream, StartSniffer returns with the listener still waiting for a
\* signal and the subscription still in force, so a later interrupt is
\* taken by that listener, which then closes the stop channel once, and by
\* no other handler.
C29_ListenerOutlivesSession ==
  /\ [](lpc = "recv" => subscribed /\ stopChan = "open" /\ stopCloses = 0)
  /\ []((HasReturned /\ cause \in {"budget", "closed"} /\ ~Interrupted) =>
          lpc = "recv" /\ subscribed)
  /\ [](stopCloses <= 1)
  /\ [][lpc = "recv" /\ lpc' # "recv" =>
          signalChan = 1 /\ signalChan' = 0 /\ lpc' = "close"]_vars
  /\ [][signalChan' < signalChan => lpc = "recv" /\ lpc' = "close"]_vars
  /\ [][subscribed /\ ~subscribed' =>
          lpc = "sigstop" /\ lpc' = "done" /\ stopChan = "closed"]_vars
  /\ [][lpc = "recv" /\ ~killed => ~killed']_vars

\* a session that ended by its budget and returned, and whose listener then
\* took an interrupt and closed the stop channel
C29_Witness ==
  /\ HasReturned /\ cause = "budget" /\ err = "nil" /\ ~killed
  /\ lpc = "done" /\ ~subscribed /\ stopChan = "closed" /\ stopCloses = 1

\* the handles acquired before the sink step that failed with error e
AcquiredBefore(e) ==
  <<"handle">> \o (IF cfg.Output /\ e # "createOut" THEN <<"outFile">> ELSE <<>>)
              \o (IF e = "header" THEN <<"pcapFile">> ELSE <<>>)

\* C30: a failure to create the text file, to create the pcap file or to
\* write the pcap file header is fatal and comes before the capture:
\* StartSniffer returns the error with no frame read, no listener started
\* and no report printed, after closing the handles acquired so far.  The
\* text file is set up before the pcap file, so a failure of the pcap setup
\* leaves the text file created, and empty.
C30_SinkSetupFailureFatal ==
  err \in {"createOut", "createPcap", "header"} =>
     /\ pc \in {"Return", "Done"}
     /\ reader = "none" /\ produced = 0 /\ processed = <<>> /\ count = 0
     /\ lpc = "none" /\ ~subscribed /\ stopChan = "nil"
     /\ reports = <<>> /\ console = <<>> /\ stats = NilStats
     /\ textFile = <<>> /\ pcapOut = <<>>
     /\ acquireLog = AcquiredBefore(err)
     /\ err = "createOut" => cfg.Output /\ outFile = "none" /\ pcapFile = "none"
     /\ err \in {"createPcap", "header"} =>
           /\ cfg.SavePcap
           /\ outFile = (IF ~cfg.Output THEN "none"
                         ELSE IF "outFile" \in {closeLog[i] : i \in 1..Len(closeLog)}
                         THEN "closed" ELSE "open")
     /\ err = "createPcap" => pcapFile = "none"
     /\ HasReturned =>
           /\ closeLog = Reverse(acquireLog)
           /\ handle = "closed" /\ outFile # "open" /\ pcapFile # "open"

\* the pcap file could not be created in a session with a text file:
\* StartSniffer has returned the error, the text file exists, empty and
\* closed, and the handle is closed
C30_Witness ==
  /\ HasReturned /\ err = "createPcap" /\ cfg.Output /\ cfg.SavePcap
  /\ outFile = "closed" /\ textFile = <<>> /\ pcapFile = "none"
  /\ closeLog = <<"outFile", "handle">>
  /\ lpc = "none" /\ processed = <<>> /\ reports = <<>>

====
